---- MODULE Spec2Model ----
(***************************************************************************)
(* Model of editor_plugin.py (Terminator "open file in editor" plugin):    *)
(* check_config, update_git_diff_context, search_filepath_in_libdir,       *)
(* get_filepath and callback, with the module-level _git_diff_context.     *)
(*                                                                         *)
(* Python strings are TLA+ strings (TLC evaluates Len, SubSeq and \o on    *)
(* them).  Python's None, True and False are the three marker strings      *)
(* None, PyTrue and PyFalse, which no fragment or path can equal because   *)
(* they contain '<'.                                                       *)
(***************************************************************************)
EXTENDS Integers, Sequences, FiniteSets, TLC

None    == "<None>"
PyTrue  == "<True>"
PyFalse == "<False>"

(* Python truthiness of the values the model handles: None, False and the  *)
(* empty string are falsy, every other string (also "False") is truthy.    *)
Truthy(v) == v \notin {None, PyFalse, ""}

----------------------------------------------------------------------------
(* String helpers: s[i] (1-based, "" outside the string), str.startswith,  *)
(* the "in" operator for one character, and str.endswith.                  *)

Ch(s, i) == IF i >= 1 /\ i <= Len(s) THEN SubSeq(s, i, i) ELSE ""

StartsWith(s, p) == Len(s) >= Len(p) /\ SubSeq(s, 1, Len(p)) = p

EndsWith(s, p) == Len(s) >= Len(p) /\ SubSeq(s, Len(s) - Len(p) + 1, Len(s)) = p

Contains(s, c) == \E i \in 1..Len(s) : Ch(s, i) = c

DigitCh == {"0", "1", "2", "3", "4", "5", "6", "7", "8", "9"}

LetterCh ==
  {"a", "b", "c", "d", "e", "f", "g", "h", "i", "j", "k", "l", "m",
   "n", "o", "p", "q", "r", "s", "t", "u", "v", "w", "x", "y", "z",
   "A", "B", "C", "D", "E", "F", "G", "H", "I", "J", "K", "L", "M",
   "N", "O", "P", "Q", "R", "S", "T", "U", "V", "W", "X", "Y", "Z"}

(* [a-zA-Z0-9] and [a-zA-Z0-9_/.\-] of DEFAULT_REGEX *)
AlnumCh == LetterCh \cup DigitCh

PathCh == AlnumCh \cup {"_", "/", ".", "-"}

(* The first index j >= i with s[j] outside `cls` (Len(s)+1 when the run   *)
(* reaches the end): where a greedy cls* starting at i stops.              *)
RECURSIVE RunEnd(_, _, _)
RunEnd(s, i, cls) ==
  IF i > Len(s) \/ Ch(s, i) \notin cls THEN i ELSE RunEnd(s, i + 1, cls)

(* Decimal text of a natural number, as str(n) *)
RECURSIVE Digits(_)
Digits(n) ==
  IF n < 10 THEN Ch("0123456789", n + 1)
            ELSE Digits(n \div 10) \o Ch("0123456789", (n % 10) + 1)

----------------------------------------------------------------------------
(* re.search(r'@@ -\d+,?\d* \+(\d+)', s): group(1) of the leftmost match,  *)
(* or None.  At a start i the parse is forced: "@@ -", a digit run, an     *)
(* optional comma, a digit run (maybe empty), " +", and the greedy digit   *)
(* run that is group 1.                                                    *)

HunkAt(s, i) ==
  LET p1 == i + 4
      e1 == RunEnd(s, p1, DigitCh)
      p2 == IF Ch(s, e1) = "," THEN e1 + 1 ELSE e1
      e2 == RunEnd(s, p2, DigitCh)
      p3 == e2 + 2
      e3 == RunEnd(s, p3, DigitCh)
  IN  IF /\ i + 3 <= Len(s)
         /\ SubSeq(s, i, i + 3) = "@@ -"
         /\ e1 > p1
         /\ Ch(s, e2) = " "
         /\ Ch(s, e2 + 1) = "+"
         /\ e3 > p3
        THEN SubSeq(s, p3, e3 - 1)
        ELSE None

HunkSearch(s) ==
  LET starts == {i \in 1..Len(s) : HunkAt(s, i) # None}
  IN  IF starts = {} THEN None
      ELSE HunkAt(s, CHOOSE i \in starts : \A j \in starts : i <= j)

----------------------------------------------------------------------------
(* re.match(config['match'], s) for the two patterns the plugin ships.     *)
(* A match is [ok, groups]; groups() has the three capturing groups of     *)
(* DEFAULT_REGEX, None for a group that did not take part.                 *)

NoMatch == [ok |-> FALSE, groups |-> <<None, None, None>>]

(* (?=$|[ \t]) at index p: end of string, before a final newline, or a     *)
(* blank.                                                                  *)
LookaheadEnd(s, p) ==
  \/ p = Len(s) + 1
  \/ p = Len(s) /\ Ch(s, p) = "\n"
  \/ Ch(s, p) \in {" ", "\t"}

(* (:[0-9]+)? at index p: the index after the group when it can take part, *)
(* p itself when it cannot.                                                *)
ColonNumEnd(s, p) ==
  LET f == RunEnd(s, p + 1, DigitCh)
  IN  IF Ch(s, p) = ":" /\ f > p + 1 THEN f ELSE p

(* (:[0-9]+)?(:[0-9]+)?(?=$|[ \t]) from index e, in backtracking order:    *)
(* both groups, the first alone, neither.  (A shorter digit run, or the    *)
(* second group in place of the first, ends where an earlier try failed.)  *)
TailAt(s, e) ==
  LET f2 == ColonNumEnd(s, e)
      f3 == ColonNumEnd(s, f2)
  IN  IF f2 > e /\ f3 > f2 /\ LookaheadEnd(s, f3)
        THEN [ok |-> TRUE, g2 |-> SubSeq(s, e, f2 - 1), g3 |-> SubSeq(s, f2, f3 - 1)]
      ELSE IF f2 > e /\ LookaheadEnd(s, f2)
        THEN [ok |-> TRUE, g2 |-> SubSeq(s, e, f2 - 1), g3 |-> None]
      ELSE IF LookaheadEnd(s, e)
        THEN [ok |-> TRUE, g2 |-> None, g3 |-> None]
      ELSE [ok |-> FALSE, g2 |-> None, g3 |-> None]

(* DEFAULT_REGEX tried at the start of s.  The literal '.' of group 1 sits *)
(* at some d inside the leading run of path characters; the greedy first   *)
(* class makes the largest d that leads to a match win, and the extension  *)
(* [a-zA-Z0-9]+ must take its whole run for the tail to match.             *)
DotOk(s, d) ==
  LET e == RunEnd(s, d + 1, AlnumCh)
  IN  /\ Ch(s, d) = "."
      /\ e > d + 1
      /\ TailAt(s, e).ok

DefaultMatch(s) ==
  LET r    == RunEnd(s, 1, PathCh)
      dots == {d \in 2..(r - 1) : DotOk(s, d)}
      d    == CHOOSE x \in dots : \A y \in dots : y <= x
      e    == RunEnd(s, d + 1, AlnumCh)
      t    == TailAt(s, e)
  IN  IF (Ch(s, 1) \in {"a", "b"} /\ Ch(s, 2) = "/") \/ dots = {}
        THEN NoMatch
        ELSE [ok |-> TRUE, groups |-> <<SubSeq(s, 1, e - 1), t.g2, t.g3>>]

(* The alternative '@@ [^@]+ @@' tried at the start of s: "@@ ", a run     *)
(* without '@' that is at least one character long once it gives back its  *)
(* last blank, then " @@".                                                 *)
HunkTokenMatch(s) ==
  LET ats == {j \in 4..Len(s) : Ch(s, j) = "@"}
      k   == CHOOSE j \in ats : \A i \in ats : j <= i
  IN  /\ StartsWith(s, "@@ ")
      /\ ats # {}
      /\ k >= 6
      /\ Ch(s, k - 1) = " "
      /\ Ch(s, k + 1) = "@"

(* GIT_DIFF_REGEX tried at the start of s.  The three lookbehind           *)
(* alternatives need '--- a/', '+++ b/' or 'diff --git a/' before the      *)
(* match position, and nothing precedes the start of a fragment, so they   *)
(* fail; the hunk token captures no group; DEFAULT_REGEX comes last.       *)
GitDiffMatch(s) ==
  IF HunkTokenMatch(s)
    THEN [ok |-> TRUE, groups |-> <<None, None, None>>]
    ELSE DefaultMatch(s)

DEFAULT_REGEX  == "DEFAULT_REGEX"
GIT_DIFF_REGEX == "GIT_DIFF_REGEX"

ReMatch(pattern, s) ==
  IF pattern = GIT_DIFF_REGEX THEN GitDiffMatch(s) ELSE DefaultMatch(s)

----------------------------------------------------------------------------
(* Module constants, lines 20-27 *)

DEFAULT_COMMAND == "gvim --remote-silent +{line} {filepath}"
DEFAULT_GROUPS  == "file line column"
DEFAULT_OPEN_IN_CURRENT_TERM == PyFalse
DEFAULT_GIT_DIFF_SUPPORT     == PyTrue

(* to_bool(val): val == "True".  Only the string "True" compares equal;    *)
(* the bool True does not.                                                 *)
to_bool(val) == IF val = "True" THEN PyTrue ELSE PyFalse

----------------------------------------------------------------------------
(* A plugin configuration is a Python dict: a function from the keys that  *)
(* are present to their values.  NoConfig, the function with no key,       *)
(* stands for plugin_get_config returning None (nothing saved yet);        *)
(* check_config treats the two alike, and get_filepath runs only after     *)
(* check_config has stored a full dict.                                    *)

NoConfig == [k \in {} |-> ""]

(* dict.get(key, default) *)
DictGet(d, key, default) == IF key \in DOMAIN d THEN d[key] ELSE default

(* d with d[key] = val *)
DictSet(d, key, val) ==
  [k \in (DOMAIN d) \cup {key} |-> IF k = key THEN val ELSE d[k]]

(* d.update(e) *)
DictUpdate(d, e) ==
  [k \in (DOMAIN d) \cup (DOMAIN e) |-> IF k \in DOMAIN e THEN e[k] ELSE d[k]]

(* The dict check_config builds and hands to plugin_set_config. *)
CheckedConfig(saved_config) ==
  LET defaults ==
        [k \in {"command", "match", "groups", "open_in_current_term",
                "git_diff_support"} |->
           CASE k = "command" -> DEFAULT_COMMAND
             [] k = "match"   -> DEFAULT_REGEX
             [] k = "groups"  -> DEFAULT_GROUPS
             [] k = "open_in_current_term" -> DEFAULT_OPEN_IN_CURRENT_TERM
             [] k = "git_diff_support"     -> DEFAULT_GIT_DIFF_SUPPORT]
      c1 == DictUpdate(defaults, saved_config)
      c2 == DictSet(c1, "open_in_current_term", to_bool(c1["open_in_current_term"]))
      c3 == DictSet(c2, "git_diff_support",
                    to_bool(DictGet(c2, "git_diff_support", DEFAULT_GIT_DIFF_SUPPORT)))
  IN  IF Truthy(c3["git_diff_support"])
        THEN DictSet(c3, "match", GIT_DIFF_REGEX)
        ELSE c3

(* get_filepath, lines 122-126: whether the git-diff branches run *)
GitDiffEnabled(config) ==
  Truthy(DictGet(config, "git_diff_support", DEFAULT_GIT_DIFF_SUPPORT))

----------------------------------------------------------------------------
(* update_git_diff_context: the tracker after observing strmatch *)

(* The shape test with the '.' case forgotten *)
IsFileHeaderShaped_slash_only(strmatch) ==
  /\ Contains(strmatch, "/")
  /\ ~StartsWith(strmatch, "@@")

IsFileHeaderShaped(strmatch) ==
  /\ Contains(strmatch, "/") \/ Contains(strmatch, ".")
  /\ ~StartsWith(strmatch, "@@")

(* The tracker update with the hunk branch dropping the cached file *)
update_git_diff_context_drop_file(context, strmatch) ==
  IF IsFileHeaderShaped(strmatch)
    THEN [file |-> strmatch, line |-> None]
  ELSE IF HunkSearch(strmatch) # None
    THEN [file |-> None, line |-> HunkSearch(strmatch)]
  ELSE context

(* The tracker update with the header branch keeping the cached line *)
update_git_diff_context_keep_line(context, strmatch) ==
  IF IsFileHeaderShaped(strmatch)
    THEN [file |-> strmatch, line |-> context.line]
  ELSE IF HunkSearch(strmatch) # None
    THEN [file |-> context.file, line |-> HunkSearch(strmatch)]
  ELSE context

update_git_diff_context(context, strmatch) ==
  IF IsFileHeaderShaped(strmatch)
    THEN [file |-> strmatch, line |-> None]
  ELSE IF HunkSearch(strmatch) # None
    THEN [file |-> context.file, line |-> HunkSearch(strmatch)]
  ELSE context

----------------------------------------------------------------------------
(* Paths and the filesystem.  A filesystem is the set of the absolute      *)
(* paths of its regular files.                                             *)

HOME == "/home/u"

(* os.path.join(a, b) for two components *)
PathJoin(a, b) ==
  IF StartsWith(b, "/") THEN b
  ELSE IF a = "" \/ EndsWith(a, "/") THEN a \o b
  ELSE a \o "/" \o b

(* os.path.isabs *)
IsAbs(p) == StartsWith(p, "/")

(* Index of the last '/' of p, 0 when there is none *)
LastSlash(p) ==
  LET idx == {i \in 1..Len(p) : Ch(p, i) = "/"}
  IN  IF idx = {} THEN 0 ELSE CHOOSE i \in idx : \A j \in idx : j <= i

(* p.split('/')[-1] and the directory part before it *)
LastSegment(p) == SubSeq(p, LastSlash(p) + 1, Len(p))

DirOf(p) == SubSeq(p, 1, LastSlash(p) - 1)

(* os.path.expanduser for '~' and '~/...' *)
ExpandUser(p) ==
  IF p = "~" \/ StartsWith(p, "~/") THEN HOME \o SubSeq(p, 2, Len(p)) ELSE p

(* os.path.exists for a file path *)
Exists(files, p) == p \in files

(* dir a is dir b or one of its ancestors *)
DirAbove(a, b) == a = b \/ StartsWith(b, a \o "/")

(* search_filepath_in_libdir: [raised, path].  The lookup of 'libdir'      *)
(* raises when the key is not configured (check_config gives it no         *)
(* default).  os.walk is top-down, so a directory's files come before the  *)
(* files of the directories below it; among directories that are not       *)
(* nested the order is the filesystem's, fixed for a given filesystem.     *)
search_filepath_in_libdir(group_value, config, files) ==
  LET filename == LastSegment(group_value)
      top      == ExpandUser(config["libdir"])
      found    == {p \in files : DirAbove(top, DirOf(p)) /\ LastSegment(p) = filename}
      first    == {p \in found :
                     \A q \in found : DirAbove(DirOf(q), DirOf(p)) => DirOf(q) = DirOf(p)}
  IN  IF "libdir" \notin DOMAIN config
        THEN [raised |-> TRUE, path |-> None]
      ELSE IF found = {}
        THEN [raised |-> FALSE, path |-> None]
      ELSE [raised |-> FALSE, path |-> CHOOSE p \in first : TRUE]

----------------------------------------------------------------------------
(* str.split(): the words of s between runs of whitespace *)
RECURSIVE Split(_)
Split(s) ==
  LET ws == {i \in 1..Len(s) : Ch(s, i) \in {" ", "\t", "\n"}}
      e  == IF ws = {} THEN Len(s) + 1 ELSE CHOOSE i \in ws : \A j \in ws : i <= j
  IN  IF s = "" THEN <<>>
      ELSE IF e = 1 THEN Split(SubSeq(s, 2, Len(s)))
      ELSE <<SubSeq(s, 1, e - 1)>> \o Split(SubSeq(s, e, Len(s)))

(* str.replace(old, new), old not empty: every occurrence, left to right, *)
(* not overlapping                                                         *)
RECURSIVE Replace(_, _, _)
Replace(s, old, new) ==
  LET n    == Len(old)
      hits == {i \in 1..(Len(s) - n + 1) : SubSeq(s, i, i + n - 1) = old}
      h    == CHOOSE i \in hits : \A j \in hits : i <= j
  IN  IF hits = {} THEN s
      ELSE SubSeq(s, 1, h - 1) \o new \o Replace(SubSeq(s, h + n, Len(s)), old, new)

----------------------------------------------------------------------------
(* get_filepath.  A return value is [raised, filepath, line, column];      *)
(* raised marks an exception leaving the call.                             *)

EmptyRef == [raised |-> FALSE, filepath |-> None, line |-> "1", column |-> "1"]

(* The tiers with the working directory left out *)
ResolveFile_no_cwd(group_value, config, dir, files) ==
  IF IsAbs(group_value) /\ Exists(files, group_value)
    THEN [raised |-> FALSE, path |-> group_value]
  ELSE search_filepath_in_libdir(group_value, config, files)

(* Lines 163-171: the three tiers for a 'file' group *)
ResolveFile(group_value, config, dir, files) ==
  IF IsAbs(group_value) /\ Exists(files, group_value)
    THEN [raised |-> FALSE, path |-> group_value]
  ELSE IF Exists(files, PathJoin(dir, group_value))
    THEN [raised |-> FALSE, path |-> PathJoin(dir, group_value)]
  ELSE search_filepath_in_libdir(group_value, config, files)

(* Lines 156-175: the loop over zip(groups, group_names), from pair i on *)
RECURSIVE AssignGroups(_, _, _, _, _, _, _)
AssignGroups(i, acc, groups, group_names, config, dir, files) ==
  LET raw   == groups[i]
      value == IF StartsWith(raw, ":") THEN SubSeq(raw, 2, Len(raw)) ELSE raw
      name  == group_names[i]
      found == ResolveFile(value, config, dir, files)
      next  == CASE raw = None -> acc
                 [] raw # None /\ name = "file" ->
                      [acc EXCEPT !.filepath = found.path]
                 [] raw # None /\ name = "line" /\ value # "" ->
                      [acc EXCEPT !.line = value]
                 [] raw # None /\ name = "column" /\ value # "" ->
                      [acc EXCEPT !.column = value]
                 [] OTHER -> acc
  IN  IF i > Len(groups) \/ i > Len(group_names) THEN acc
      ELSE IF raw # None /\ name = "file" /\ found.raised
        THEN [acc EXCEPT !.raised = TRUE]
      ELSE AssignGroups(i + 1, next, groups, group_names, config, dir, files)

(* Lines 148-176: the plain-pattern path *)
PlainPath(strmatch, config, dir, files) ==
  LET match == ReMatch(config["match"], strmatch)
  IN  IF ~match.ok THEN EmptyRef
      ELSE AssignGroups(1, EmptyRef, match.groups, Split(config["groups"]),
                        config, dir, files)

(* The hunk branch taken without a cached file *)
HunkResolvable_any_file(strmatch, tracked) ==
  /\ StartsWith(strmatch, "@@")
  /\ HunkSearch(strmatch) # None

(* Lines 132-134: a fragment that starts with '@@' resolves through the    *)
(* tracker when the hunk pattern extracts a line and a file is cached.     *)
HunkResolvable(strmatch, tracked) ==
  /\ StartsWith(strmatch, "@@")
  /\ HunkSearch(strmatch) # None
  /\ Truthy(tracked.file)

(* Lines 130-176: the value returned, given the tracker as it is consulted *)
Respond(strmatch, tracked, config, dir, files) ==
  IF GitDiffEnabled(config) /\ HunkResolvable(strmatch, tracked)
    THEN [raised |-> FALSE, filepath |-> PathJoin(dir, tracked.file),
          line |-> HunkSearch(strmatch), column |-> "1"]
  ELSE IF /\ GitDiffEnabled(config)
          /\ ~StartsWith(strmatch, "@@")
          /\ Contains(strmatch, "/") \/ Contains(strmatch, ".")
    THEN [raised |-> FALSE, filepath |-> PathJoin(dir, strmatch),
          line |-> IF Truthy(tracked.line) THEN tracked.line ELSE "1",
          column |-> "1"]
  ELSE PlainPath(strmatch, config, dir, files)

(* get_filepath with the tracker read before it is updated *)
get_filepath_stale(strmatch, context, config, dir, files) ==
  [ret     |-> Respond(strmatch, context, config, dir, files),
   context |-> IF GitDiffEnabled(config)
                 THEN update_git_diff_context(context, strmatch)
                 ELSE context]

(* The whole of get_filepath: [ret, context], the value returned and the   *)
(* tracker it leaves behind.  The tracker is updated first (line 128) and  *)
(* the branches read the updated tracker.                                  *)
get_filepath(strmatch, context, config, dir, files) ==
  LET tracked == IF GitDiffEnabled(config)
                   THEN update_git_diff_context(context, strmatch)
                   ELSE context
  IN  [ret |-> Respond(strmatch, tracked, config, dir, files), context |-> tracked]

(* callback: [raised, returned, popen, feed].  returned is the value       *)
(* handed back (None when the function falls off its end), popen the       *)
(* command line given to subprocess.Popen and feed the text given to       *)
(* vte.feed_child, None when they are not called.  open_url is the intent  *)
(* the host's call stack shows.                                            *)
NoOutcome == [raised |-> FALSE, returned |-> None, popen |-> None, feed |-> None]

callback(ret, config, open_url) ==
  LET command == Replace(Replace(Replace(config["command"],
                   "{filepath}", ret.filepath), "{line}", ret.line),
                   "{column}", ret.column)
  IN  IF ret.raised THEN [NoOutcome EXCEPT !.raised = TRUE]
      ELSE IF ~Truthy(ret.filepath) THEN NoOutcome
      ELSE IF ~open_url THEN [NoOutcome EXCEPT !.returned = command]
      ELSE IF Truthy(config["open_in_current_term"])
        THEN [NoOutcome EXCEPT !.returned = "--version", !.feed = command \o "\n"]
      ELSE [NoOutcome EXCEPT !.returned = "--version", !.popen = command]

----------------------------------------------------------------------------
(* The inputs.  A fragment reaches the plugin as the text one alternative  *)
(* of the active pattern matched in a line of terminal output; `origin`    *)
(* records which: "header" (after '--- a/', '+++ b/' or 'diff --git a/'),  *)
(* "hunk" (the '@@ ... @@' token) or "plain" (DEFAULT_REGEX).  The plugin  *)
(* sees the text only.                                                     *)

NumLines == 2

(* Line numbers written in the fragments: 5, 15, 25, ... *)
LineNumbers == {10 * n - 5 : n \in 1..NumLines}

HeaderPaths == {"foo.txt", "Makefile"}

WellFormedHunk(n) == "@@ -1,3 +" \o Digits(n) \o ",3 @@"

HunkFragments == {WellFormedHunk(n) : n \in LineNumbers} \cup {"@@ -1,3 @@"}

PlainPaths == {"foo.txt", "src/bar.py", "/abs/x.py"}

PlainRef(path, n) == path \o ":" \o Digits(n) \o ":" \o Digits(n + 1)

PlainFragments ==
  {PlainRef(path, n) : path \in PlainPaths, n \in LineNumbers}
    \cup {"a/foo.txt:5:6"}

Inputs ==
  {[origin |-> "header", text |-> t] : t \in HeaderPaths}
    \cup {[origin |-> "hunk", text |-> t] : t \in HunkFragments}
    \cup {[origin |-> "plain", text |-> t] : t \in PlainFragments}

(* The files on disk and the directories the terminal can be in. *)
Files ==
  {"/w/foo.txt", "/abs/x.py",
   "/home/u/lib/bar.py", "/home/u/lib/sub/bar.py"}

Cwds == {"/w", "/"}

(* What the user has saved before the plugin is first constructed, and the *)
(* values a user writes into a saved configuration later.                  *)
SavedConfigs ==
  {NoConfig,
   [k \in {"git_diff_support", "libdir", "open_in_current_term"} |->
      CASE k = "git_diff_support" -> "False"
        [] k = "libdir" -> "~/lib"
        [] k = "open_in_current_term" -> "True"]}

Editable ==
  {<<"git_diff_support", "True">>, <<"git_diff_support", "False">>,
   <<"open_in_current_term", "True">>, <<"open_in_current_term", "False">>,
   <<"libdir", "~/lib">>}

----------------------------------------------------------------------------
VARIABLES
  git_diff_context,  \* the module-level _git_diff_context
  config,            \* the plugin's section of the Terminator configuration
  cwd,               \* what Terminal.get_cwd() returns
  op,                \* the last operation that ran
  input,             \* the input of the last callback
  ret,               \* what get_filepath returned to the last callback
  outcome,           \* what the last callback did
  header,            \* the last "header" input resolved with git-diff on
  shaped             \* the last path-shaped text resolved with git-diff on

vars == <<git_diff_context, config, cwd, op, input, ret, outcome, header, shaped>>

NoInput == [origin |-> "none", text |-> ""]

Idle ==
  /\ input = NoInput
  /\ ret = EmptyRef
  /\ outcome = NoOutcome

(* An operation other than callback leaves no call result behind. *)
BecomeIdle ==
  /\ input' = NoInput
  /\ ret' = EmptyRef
  /\ outcome' = NoOutcome

(* The module is imported and the plugin constructed: __init__ has run     *)
(* check_config on what was saved.                                         *)
Init ==
  /\ git_diff_context = [file |-> None, line |-> None]
  /\ config \in {CheckedConfig(saved) : saved \in SavedConfigs}
  /\ cwd \in Cwds
  /\ op = "init"
  /\ Idle
  /\ header = None
  /\ shaped = None

(* The user sets git_diff_support and the plugin is constructed again:     *)
(* check_config runs on the configuration held in memory.                  *)
Reconfigure ==
  \E v \in {"True", "False"} :
    /\ config' = CheckedConfig(DictSet(config, "git_diff_support", v))
    /\ config' # config
    /\ op' = "check_config"
    /\ BecomeIdle
    /\ UNCHANGED <<git_diff_context, cwd, header, shaped>>

(* The shell in the terminal changes directory. *)
Chdir ==
  \E d \in Cwds :
    /\ d # cwd
    /\ cwd' = d
    /\ op' = "chdir"
    /\ BecomeIdle
    /\ UNCHANGED <<git_diff_context, config, header, shaped>>

(* The history variable `header`: a header input resolved with git-diff    *)
(* on becomes the current header, a plain input in between ends the diff.  *)
HeaderAfter(in) ==
  IF ~GitDiffEnabled(config) THEN header
  ELSE IF in.origin = "header" THEN in.text
  ELSE IF in.origin = "plain" THEN None
  ELSE header

(* The history variable `shaped`: the last text with a '/' or a '.' and    *)
(* no leading '@@' that was resolved with git-diff on.                     *)
PathShaped(text) ==
  /\ \E i \in 1..Len(text) : SubSeq(text, i, i) \in {"/", "."}
  /\ ~(Len(text) >= 2 /\ SubSeq(text, 1, 2) = "@@")

ShapedAfter(in) ==
  IF GitDiffEnabled(config) /\ PathShaped(in.text) THEN in.text ELSE shaped

(* The host calls callback on a fragment, to open it or to copy the        *)
(* command; callback calls get_filepath, which updates the tracker.        *)
Callback ==
  \E in \in Inputs :
    LET r == get_filepath(in.text, git_diff_context, config, cwd, Files)
    IN  /\ git_diff_context' = r.context
        /\ ret' = r.ret
        /\ \E open_url \in BOOLEAN : outcome' = callback(ret', config, open_url)
        /\ op' = "callback"
        /\ input' = in
        /\ header' = HeaderAfter(in)
        /\ shaped' = ShapedAfter(in)
        /\ UNCHANGED <<config, cwd>>

Next == Reconfigure \/ Chdir \/ Callback

Spec == Init /\ [][Next]_vars

(* check_config on its own: the saved configuration starts as one of       *)
(* SavedConfigs, the user edits single values, and check_config runs any   *)
(* number of times in between.                                             *)
InitConfig ==
  /\ git_diff_context = [file |-> None, line |-> None]
  /\ config \in SavedConfigs
  /\ cwd \in Cwds
  /\ op = "import"
  /\ Idle
  /\ header = None
  /\ shaped = None

CheckConfig ==
  /\ config' = CheckedConfig(config)
  /\ op' = "check_config"
  /\ UNCHANGED <<git_diff_context, cwd, input, ret, outcome, header, shaped>>

EditConfig ==
  \E e \in Editable :
    /\ DictGet(config, e[1], None) # e[2]
    /\ config' = DictSet(config, e[1], e[2])
    /\ op' = "edit_config"
    /\ UNCHANGED <<git_diff_context, cwd, input, ret, outcome, header, shaped>>

NextConfig == CheckConfig \/ EditConfig

SpecConfig == InitConfig /\ [][NextConfig]_vars

----------------------------------------------------------------------------
(* Properties of the resolver (specification Spec)                         *)

Called == op = "callback"

Enabled == GitDiffEnabled(config)

(* The new-file start line a well-formed hunk header '@@ -1,3 +N,3 @@' of  *)
(* the inputs names, None for any other text.                              *)
NewStart(text) ==
  IF \E n \in LineNumbers : text = WellFormedHunk(n)
    THEN Digits(CHOOSE n \in LineNumbers : text = WellFormedHunk(n))
    ELSE None

(* C1: with git-diff support on, resolving a well-formed hunk header       *)
(* returns the path of the most recent preceding file-header fragment,     *)
(* whatever path the header alternatives captured (also 'Makefile').       *)
C1_HunkResolvesToLastHeader ==
  (Called /\ Enabled /\ input.origin = "hunk" /\ NewStart(input.text) # None
     /\ header # None)
    => (~ret.raised /\ ret.filepath = PathJoin(cwd, header))

(* C2: with git-diff support on, once a path-shaped fragment F has been    *)
(* resolved and only fragments that are not path-shaped since, resolving   *)
(* a well-formed hunk header with new-file start N returns exactly         *)
(* (cwd joined with F, N, '1').                                            *)
C2_HunkAfterShapedFragment ==
  (Called /\ Enabled /\ NewStart(input.text) # None /\ shaped # None)
    => ret = [raised |-> FALSE, filepath |-> PathJoin(cwd, shaped),
              line |-> NewStart(input.text), column |-> "1"]

(* C2 witness: 'foo.txt', then 'Makefile' (not path-shaped), then          *)
(* '@@ -1,3 +5,3 @@' resolved to .../foo.txt at line 5.                    *)
C2_Witness ==
  /\ Called /\ Enabled
  /\ input.text = "@@ -1,3 +5,3 @@"
  /\ shaped = "foo.txt" /\ header = "Makefile"
  /\ EndsWith(ret.filepath, "foo.txt") /\ ret.line = "5"

(* C3: with git-diff support on and the git-diff pattern as match, when    *)
(* the tracker's file is unset, resolving a hunk-header fragment returns   *)
(* the empty reference without raising and callback produces no command.   *)
C3_HunkWithoutFileIsEmpty ==
  [][(/\ Enabled
      /\ config["match"] = GIT_DIFF_REGEX
      /\ git_diff_context.file = None
      /\ op' = "callback"
      /\ input'.origin = "hunk")
       => (ret' = EmptyRef /\ outcome' = NoOutcome)]_vars

(* C3 witness: a well-formed hunk header resolved with no file cached *)
C3_Witness ==
  /\ Called /\ Enabled
  /\ config["match"] = GIT_DIFF_REGEX
  /\ input.text = "@@ -1,3 +15,3 @@"
  /\ git_diff_context = [file |-> None, line |-> "15"]
  /\ ret = EmptyRef /\ outcome = NoOutcome

(* The plain references of the inputs: the text path:N:M *)
IsPlainRef(text, path, n) ==
  path \in PlainPaths /\ n \in LineNumbers /\ text = PlainRef(path, n)

PlainSetup ==
  /\ Called /\ ~Enabled
  /\ config["match"] = DEFAULT_REGEX
  /\ config["groups"] = "file line column"

(* The files below the configured libdir whose name is the last segment of *)
(* path; none when no libdir is configured.                                *)
LibdirHits(path) ==
  IF "libdir" \notin DOMAIN config THEN {}
  ELSE {f \in Files : /\ StartsWith(f, ExpandUser(config["libdir"]) \o "/")
                      /\ EndsWith(f, "/" \o LastSegment(path))}

(* C4 as stated: with git-diff support off, the plain pattern and groups   *)
(* 'file line column', get_filepath on name.ext:N:M returns line N, column *)
(* M and a filepath ending in name.ext, whatever the filesystem, cwd and   *)
(* libdir (judged for bare file names, where the call returns).            *)
C4_PlainRefAlwaysResolves ==
  \A path \in PlainPaths, n \in LineNumbers :
    (PlainSetup /\ IsPlainRef(input.text, path, n) /\ ~Contains(path, "/")
       /\ ~ret.raised)
      => /\ ret.line = Digits(n)
         /\ ret.column = Digits(n + 1)
         /\ ret.filepath # None
         /\ EndsWith(ret.filepath, path)

(* C4 amended: in that setup, if name.ext exists as an absolute path or    *)
(* relative to cwd, get_filepath returns that path (which ends in          *)
(* name.ext) with line N and column M; if it does not and no libdir is     *)
(* configured the call raises; otherwise it returns line N, column M and   *)
(* a file below libdir named like the last segment of name.ext, or no      *)
(* filepath when there is none.  A fragment that starts with 'a/' or 'b/'  *)
(* does not match and yields the empty reference.                          *)
C4_PlainRefResolvesByTier ==
  /\ \A path \in PlainPaths, n \in LineNumbers :
       (PlainSetup /\ IsPlainRef(input.text, path, n)) =>
         IF PathJoin(cwd, path) \in Files
           THEN ret = [raised |-> FALSE, filepath |-> PathJoin(cwd, path),
                       line |-> Digits(n), column |-> Digits(n + 1)]
         ELSE IF "libdir" \notin DOMAIN config
           THEN ret.raised
         ELSE /\ ~ret.raised
              /\ ret.line = Digits(n)
              /\ ret.column = Digits(n + 1)
              /\ IF LibdirHits(path) = {} THEN ret.filepath = None
                                          ELSE ret.filepath \in LibdirHits(path)
  /\ (PlainSetup /\ input.text = "a/foo.txt:5:6") => ret = EmptyRef

(* C4 witness: 'src/bar.py:5:6' is found by name below libdir, so the      *)
(* filepath ends in bar.py and not in src/bar.py.                          *)
C4_Witness ==
  /\ PlainSetup
  /\ input.text = "src/bar.py:5:6"
  /\ ret = [raised |-> FALSE, filepath |-> "/home/u/lib/bar.py",
            line |-> "5", column |-> "6"]

(* C5: get_filepath called again on the same fragment, with the same       *)
(* configuration, cwd and filesystem and the tracker as the first call     *)
(* left it, returns what the first call returned and leaves the tracker    *)
(* as the first call left it.                                              *)
C5_SecondCallAgrees ==
  Called =>
    get_filepath(input.text, git_diff_context, config, cwd, Files)
      = [ret |-> ret, context |-> git_diff_context]

(* C5 witness: a file header resolved after a hunk header had cached a     *)
(* file and the first call has reset the cached line.                      *)
C5_Witness ==
  /\ Called /\ Enabled
  /\ input.text = "foo.txt"
  /\ git_diff_context = [file |-> "foo.txt", line |-> None]
  /\ ret.line = "1"

(* C6: for a plain reference whose path exists neither as an absolute      *)
(* path, nor relative to cwd, nor by name below libdir, get_filepath       *)
(* returns no filepath and callback returns no command, spawns nothing     *)
(* and feeds nothing, with git-diff support on or off.                     *)
C6_UnresolvedPathOpensNothing ==
  \A path \in PlainPaths, n \in LineNumbers :
    (/\ Called
     /\ IsPlainRef(input.text, path, n)
     /\ path \notin Files
     /\ PathJoin(cwd, path) \notin Files
     /\ LibdirHits(path) = {})
      => /\ ret.raised \/ ret.filepath = None
         /\ outcome.returned = None
         /\ outcome.popen = None
         /\ outcome.feed = None

(* C8: the tracker starts with both fields unset and changes only in       *)
(* get_filepath with git-diff support on: a path-shaped fragment sets file *)
(* to the fragment and unsets line; a fragment from which the hunk pattern *)
(* extracts N sets line to N and keeps file; any other fragment, and any   *)
(* call with git-diff support off, changes nothing.                        *)
C8_TrackerFrame ==
  /\ git_diff_context = [file |-> None, line |-> None]
  /\ [][IF op' # "callback" \/ ~Enabled
          THEN git_diff_context' = git_diff_context
        ELSE IF PathShaped(input'.text)
          THEN git_diff_context' = [file |-> input'.text, line |-> None]
        ELSE IF NewStart(input'.text) # None
          THEN git_diff_context' = [file |-> git_diff_context.file,
                                    line |-> NewStart(input'.text)]
        ELSE git_diff_context' = git_diff_context]_vars

(* C8 witness: a hunk header observed after a file header: line set, file  *)
(* kept.                                                                   *)
C8_Witness ==
  /\ Called /\ Enabled
  /\ input.text = "@@ -1,3 +15,3 @@"
  /\ git_diff_context = [file |-> "foo.txt", line |-> "15"]

----------------------------------------------------------------------------
(* Properties of check_config (specification SpecConfig)                   *)

(* C7: after any sequence of check_config runs and changes of the saved    *)
(* git_diff_support between 'True' and another value, the stored match is  *)
(* the git-diff pattern when get_filepath takes the git-diff branches and  *)
(* the plain pattern when it does not (judged after each check_config run  *)
(* that reads a value the user wrote).                                     *)
C7_MatchFollowsGitDiffSupport ==
  [][(/\ op' = "check_config"
      /\ DictGet(config, "git_diff_support", None) \in {"True", "False"})
       => config'["match"] = IF GitDiffEnabled(config') THEN GIT_DIFF_REGEX
                                                        ELSE DEFAULT_REGEX]_vars

(* C10: check_config run on a saved configuration without a                *)
(* git_diff_support key (or on none at all) stores git_diff_support as     *)
(* enabled and the git-diff pattern as match.                              *)
C10_DefaultIsEnabled ==
  [][(op' = "check_config" /\ "git_diff_support" \notin DOMAIN config)
       => /\ config'["git_diff_support"] = PyTrue
          /\ config'["match"] = GIT_DIFF_REGEX]_vars

====
